---- MODULE Spec2Model ----
(***************************************************************************)
(* A model of monitoring.py: one run of the health-check script.           *)
(*                                                                         *)
(* The script is sequential.  The model's state is the global `issues`     *)
(* list, the position of the main block, the locals of the function that   *)
(* is executing, and a few history variables (calls made, seconds slept,   *)
(* checks evaluated) that the properties talk about.  The cloud backends   *)
(* (Elastic Beanstalk, CloudWatch, SSM, EC2, the HTTP endpoint, the        *)
(* scraped dashboard, SMTP) are the environment: each call either raises   *)
(* or returns a value drawn from a small set.                              *)
(*                                                                         *)
(* Text that the code parses (command stdout, the HTTP body) is a sequence *)
(* of one-character strings, so that strip/split/replace/isdigit/float are *)
(* computed.  Text that the code only builds (the Status of an issue) is a *)
(* TLA+ string built with \o.  Floats are modelled by integers: every      *)
(* numeric text in the candidate sets is an unsigned integer literal.      *)
(*                                                                         *)
(* The narrative lines printed by the monitors are not modelled; of the    *)
(* captured output only the lines of print_issue_summary are.              *)
(*                                                                         *)
(* Spec is one run of the script.  SummarySpec runs print_issue_summary    *)
(* and send_email from an arbitrary issues list.                           *)
(***************************************************************************)
EXTENDS Integers, Sequences, FiniteSets, TLC

(***************************************************************************)
(* Bounds of the environment.                                              *)
(***************************************************************************)
\* Environments returned by one describe_environments call.
MaxEnvs == 3
\* Datapoints returned by one get_metric_data call.
MaxDatapoints == 2
\* Table rows found by the dashboard scrape.
MaxRows == 1
\* Once the issues list holds this many entries the backends probed by
\* monitor_ec2 (CloudWatch, SSM) answer healthily for the rest of the run.
MaxIssues == 2
\* Entries of the issues list print_issue_summary is called with, when the
\* function is checked on its own.
MaxListed == 3

(***************************************************************************)
(* Option values: Python's None and a present value.                       *)
(***************************************************************************)
None == <<>>
Some(v) == <<v>>
Get(o) == o[1]

(***************************************************************************)
(* Text helpers (Python str methods), on sequences of characters.          *)
(***************************************************************************)
Digits == {"0", "1", "2", "3", "4", "5", "6", "7", "8", "9"}
Whitespace == {" ", "\n", "\t"}

DigitVal(c) ==
    CASE c = "0" -> 0 [] c = "1" -> 1 [] c = "2" -> 2 [] c = "3" -> 3
      [] c = "4" -> 4 [] c = "5" -> 5 [] c = "6" -> 6 [] c = "7" -> 7
      [] c = "8" -> 8 [] c = "9" -> 9

\* "".join(cs): the characters as one string.
RECURSIVE Join(_)
Join(cs) == IF cs = <<>> THEN "" ELSE Head(cs) \o Join(Tail(cs))

RECURSIVE LStrip(_)
LStrip(cs) ==
    IF cs # <<>> /\ Head(cs) \in Whitespace THEN LStrip(Tail(cs)) ELSE cs

RECURSIVE RStrip(_)
RStrip(cs) ==
    IF cs # <<>> /\ cs[Len(cs)] \in Whitespace
    THEN RStrip(SubSeq(cs, 1, Len(cs) - 1))
    ELSE cs

\* str.strip()
Strip(cs) == RStrip(LStrip(cs))

\* str.split() without arguments: the maximal runs of non-whitespace.
RECURSIVE SplitFrom(_, _, _)
SplitFrom(cs, cur, acc) ==
    IF cs = <<>>
    THEN IF cur = <<>> THEN acc ELSE Append(acc, cur)
    ELSE IF Head(cs) \in Whitespace
         THEN SplitFrom(Tail(cs), <<>>, IF cur = <<>> THEN acc ELSE Append(acc, cur))
         ELSE SplitFrom(Tail(cs), Append(cur, Head(cs)), acc)

Split(cs) == SplitFrom(cs, <<>>, <<>>)

\* str.replace(old, ""), old one character.
Remove(cs, old) == SelectSeq(cs, LAMBDA c : c # old)

\* str.isdigit(): non-empty and decimal digits only.
IsDigit(cs) == cs # <<>> /\ \A i \in 1..Len(cs) : cs[i] \in Digits

\* float(text) raises ValueError unless the text is a numeric literal; the
\* literals of this model are unsigned integers.
FloatRaises(cs) == ~IsDigit(cs)

RECURSIVE FloatFrom(_, _)
FloatFrom(cs, acc) ==
    IF cs = <<>> THEN acc ELSE FloatFrom(Tail(cs), 10 * acc + DigitVal(Head(cs)))

Float(cs) == FloatFrom(cs, 0)

\* f"{x:.2f}" of an integral value.
Fmt2f(x) == ToString(x) \o ".00"


(***************************************************************************)
(* Program constants.                                                      *)
(***************************************************************************)
logger_mongo_instances ==
    <<"i-00e0f35f25480f647", "i-0c88e356ad88357b0", "i-070ed38555e983a39">>

main_mongo_instances ==
    <<"i-0fd0bddfa1f458b4b", "i-0b3819ce528f9cd9f", "i-051daf3ab8bc94e62">>

\* Mutant of MaxAttempts: one iteration too many.
MaxAttempts_OneMore == 10 + 1

\* range(10) of the polling loop.
MaxAttempts == 10
\* Mutant of PollInterval: a second more between polls.
PollInterval_Longer == 3 + 1

\* time.sleep(2) after the dispatch, time.sleep(3) after a pending poll.
InitialDelay == 2
PollInterval == 3
\* cpu > 65, percent > 84.
CpuThreshold == 65
StorageThreshold == 84
\* Mutant of Main: the external API is checked before the database hosts.
Main_Swapped ==
    <<"monitor_beanstalk", "check_fota_time_api", "monitor_ec2",
      "monitor_mqtt_nodes", "print_issue_summary", "send_email">>

\* The statements of the main block, in program order.
Main ==
    <<"monitor_beanstalk", "monitor_ec2", "check_fota_time_api",
      "monitor_mqtt_nodes", "print_issue_summary", "send_email">>

\* Mutant of Calls: the logger hosts are checked on the default path.
Calls_DefaultPath ==
    << [instances |-> logger_mongo_instances, inst_type |-> "EC2 Logger",
        storage_path |-> "/data"],
       [instances |-> main_mongo_instances, inst_type |-> "EC2 Main Mongo",
        storage_path |-> "/data"] >>

\* The two check_instances calls of monitor_ec2, in program order.
Calls ==
    << [instances |-> logger_mongo_instances, inst_type |-> "EC2 Logger",
        storage_path |-> "/"],
       [instances |-> main_mongo_instances, inst_type |-> "EC2 Main Mongo",
        storage_path |-> "/data"] >>

(***************************************************************************)
(* What the backends can answer.                                           *)
(***************************************************************************)
\* Text of an exception raised by a backend call.
ErrorTexts == {"timed out", "connection refused"}

\* describe_environments()["Environments"]
EnvRecords ==
    [EnvironmentName : {"web-env", "kazam-app-backend-env"},
     Status : {"Ready"},
     Health : {"Green", "Red"}]

RECURSIVE SeqsUpTo(_, _)
SeqsUpTo(S, n) ==
    IF n = 0 THEN {<<>>}
    ELSE LET shorter == SeqsUpTo(S, n - 1)
         IN  shorter \cup {Append(s, x) : s \in shorter, x \in S}

EnvLists == SeqsUpTo(EnvRecords, MaxEnvs)

\* get_metric_data: the per-period averages, in percent.
CpuValues == {65, 66}

CpuResponses ==
    {[MetricDataResults |-> <<>>]} \cup
    {[MetricDataResults |-> <<[Values |-> vs]>>] : vs \in SeqsUpTo(CpuValues, MaxDatapoints)}

\* Responses of a host whose CPU never went above the threshold.
HealthyCpuResponses ==
    {r \in CpuResponses :
        /\ r.MetricDataResults # <<>>
        /\ r.MetricDataResults[1].Values # <<>>
        /\ \A i \in 1..Len(r.MetricDataResults[1].Values) :
              r.MetricDataResults[1].Values[i] = 65}

\* describe_instances, per instance: whether the call raises and, if not,
\* the value of the Name tag (None: no such tag, or no reservation).  The
\* tags of the fleet do not change during a run, so a run has one answer per
\* instance.
Tagged(nm) == [raised |-> FALSE, tag |-> Some(nm)]
Untagged == [raised |-> FALSE, tag |-> None]
Unreachable == [raised |-> TRUE, tag |-> None]

Fleets ==
    { ( "i-00e0f35f25480f647" :> Tagged("logger-mongo-1") @@
        "i-0c88e356ad88357b0" :> Tagged("logger-mongo-2") @@
        "i-070ed38555e983a39" :> Tagged("logger-mongo-3") @@
        "i-0fd0bddfa1f458b4b" :> Tagged("main-mongo-1") @@
        "i-0b3819ce528f9cd9f" :> Tagged("main-mongo-2") @@
        "i-051daf3ab8bc94e62" :> Tagged("main-mongo-3") ),
      ( "i-00e0f35f25480f647" :> Unreachable @@
        "i-0c88e356ad88357b0" :> Untagged @@
        "i-070ed38555e983a39" :> Tagged("mongo") @@
        "i-0fd0bddfa1f458b4b" :> Tagged("mongo") @@
        "i-0b3819ce528f9cd9f" :> Unreachable @@
        "i-051daf3ab8bc94e62" :> Untagged ) }

\* get_command_invocation()["Status"]
\* A command is pending until it ends in Success or in one of the failure
\* statuses, and an ended command keeps its status.
PendingStatuses == {"InProgress", "Pending"}
FailureStatuses == {"Failed", "Cancelled", "TimedOut"}
Statuses == PendingStatuses \cup {"Success"} \cup FailureStatuses

\* get_command_invocation()["StandardOutputContent"] of the df | awk command.
Out84 == <<"8","4","%"," ","4","2","G"," ","5","0","G","\n">>
Out85 == <<"8","5","%"," ","4","3","G"," ","5","0","G","\n">>
OutEmpty == <<>>
OutBlank == <<" "," ","\n">>
OutTwo == <<"8","5","%"," ","4","3","G","\n">>
OutFour == <<"8","5","%"," ","4","3","G"," ","5","0","G"," ","/","\n">>
OutDash == <<"-"," ","0"," ","0","\n">>

Stdouts == {Out84, Out85, OutEmpty, OutBlank, OutTwo, OutFour, OutDash}
HealthyStdouts == {Out84}


(***************************************************************************)
(* The functions of the script that compute a value from a backend answer. *)
(***************************************************************************)
Issue(type, nm, metric, st) ==
    [Type |-> type, Name |-> nm, Metric |-> metric, Status |-> st]

RECURSIVE Max(_)
Max(vs) ==
    IF Len(vs) = 1 THEN vs[1]
    ELSE LET m == Max(Tail(vs)) IN IF vs[1] >= m THEN vs[1] ELSE m

\* Mutant of check_ec2_cpu: the most recent value is returned.
check_ec2_cpu_First(raised, response) ==
    IF raised THEN None
    ELSE LET results == response.MetricDataResults
         IN  IF results = <<>> \/ results[1].Values = <<>>
             THEN None
             ELSE Some(results[1].Values[1])

\* check_ec2_cpu: `raised` is whether get_metric_data raised.
check_ec2_cpu(raised, response) ==
    IF raised THEN None
    ELSE LET results == response.MetricDataResults
         IN  IF results = <<>> \/ results[1].Values = <<>>
             THEN None
             ELSE Some(Max(results[1].Values))

\* get_instance_name: `raised` is whether describe_instances raised.
get_instance_name(raised, tag, instance_id) ==
    IF raised THEN instance_id
    ELSE IF tag # None THEN Get(tag) ELSE instance_id

\* Mutant of ParseStorage: three or more tokens are accepted.
ParseStorage_AtLeast3(stdout) ==
    LET result == Strip(stdout)
        parts == Split(result)
        percent == Remove(parts[1], "%")
    IN  IF result # <<>> /\ Len(parts) >= 3
        THEN IF FloatRaises(percent)
             THEN None
             ELSE Some(<<Float(percent), Join(parts[2]), Join(parts[3])>>)
        ELSE None

\* check_storage, the Success branch: the value returned for a stdout.  A
\* ValueError of float() is caught by the function's except clause.
ParseStorage(stdout) ==
    LET result == Strip(stdout)
        parts == Split(result)
        percent == Remove(parts[1], "%")
    IN  IF result # <<>> /\ Len(parts) = 3
        THEN IF FloatRaises(percent)
             THEN None
             ELSE Some(<<Float(percent), Join(parts[2]), Join(parts[3])>>)
        ELSE None

\* Mutant of CpuIssues: the comparison is not strict.
CpuIssues_Ge(inst_type, nm, c) ==
    IF c = None
    THEN <<Issue(inst_type, nm, "CPU", "No data")>>
    ELSE IF Get(c) >= CpuThreshold
         THEN <<Issue(inst_type, nm, "CPU", "High (" \o Fmt2f(Get(c)) \o "%)")>>
         ELSE <<>>

\* check_instances: the issues appended for a CPU reading.
CpuIssues(inst_type, nm, c) ==
    IF c = None
    THEN <<Issue(inst_type, nm, "CPU", "No data")>>
    ELSE IF Get(c) > CpuThreshold
         THEN <<Issue(inst_type, nm, "CPU", "High (" \o Fmt2f(Get(c)) \o "%)")>>
         ELSE <<>>

\* Mutant of StorageIssues: a failed check is skipped silently.
StorageIssues_Silent(inst_type, nm, st) ==
    IF st # None
    THEN LET percent == Get(st)[1]
             used == Get(st)[2]
             total == Get(st)[3]
         IN  IF percent > StorageThreshold
             THEN <<Issue(inst_type, nm, "Storage",
                          "High (" \o Fmt2f(percent) \o "% used " \o used
                              \o "/" \o total \o ")")>>
             ELSE <<>>
    ELSE <<>>

\* check_instances: the issues appended for a check_storage result.
StorageIssues(inst_type, nm, st) ==
    IF st # None
    THEN LET percent == Get(st)[1]
             used == Get(st)[2]
             total == Get(st)[3]
         IN  IF percent > StorageThreshold
             THEN <<Issue(inst_type, nm, "Storage",
                          "High (" \o Fmt2f(percent) \o "% used " \o used
                              \o "/" \o total \o ")")>>
             ELSE <<>>
    ELSE <<Issue(inst_type, nm, "Storage", "Check failed")>>

\* The classification each branch of check_instances stands for, and
\* whether it is one of the two that deviate from OK.
Deviates(verdict) == IF verdict \in {"Degraded", "Missing"} THEN 1 ELSE 0

CpuVerdict(c) ==
    IF c = None THEN "Missing"
    ELSE IF Get(c) > CpuThreshold THEN "Degraded" ELSE "OK"

StorageVerdict(st) ==
    IF st = None THEN "Missing"
    ELSE IF Get(st)[1] > StorageThreshold THEN "Degraded" ELSE "OK"

\* Mutant of SkippedEnvs: no environment is skipped.
SkippedEnvs_None == {}

\* Environments monitor_beanstalk skips.
SkippedEnvs == {"kazam-app-backend-env", "Kazam-platform-replica-env"}

\* monitor_beanstalk: the body of the loop, for one environment.  acc holds
\* the two counters, the issues list and the history counter of deviations.
BeanstalkBody(env, acc) ==
    LET nm == env.EnvironmentName
    IN  IF nm \in SkippedEnvs
        THEN acc
        ELSE IF env.Health = "Green"
             THEN [acc EXCEPT !.ok_count = @ + 1]
             ELSE [acc EXCEPT !.issue_count = @ + 1,
                              !.issues = Append(@,
                                  Issue("Elastic Beanstalk", nm, "Health",
                                        env.Health)),
                              !.deviations = @ + 1]

(***************************************************************************)
(* State.                                                                  *)
(***************************************************************************)
VARIABLES
    fleet,        \* environment: what describe_instances answers per instance
    pc,           \* index in Main of the statement to execute next
    exc,          \* the function an uncaught exception escaped from, or "none"
    ran,          \* history: the statements of Main that have returned
    issues,       \* the global issues list
    deviations,   \* history: the checks evaluated as Degraded or Missing
    listed,       \* monitor_beanstalk: whether envs has been assigned
    envs,         \* monitor_beanstalk: envs
    env_idx,      \* monitor_beanstalk: iterations of the loop over envs done
    ok_count,     \* monitor_beanstalk: ok_count
    issue_count,  \* monitor_beanstalk: issue_count
    call,         \* monitor_ec2: which check_instances call is executing
    idx,          \* check_instances: position of `inst` in `instances`
    at,           \* check_instances / check_storage: the statement reached
    name,         \* check_instances: name
    cpu,          \* check_instances: cpu
    cw_response,  \* check_ec2_cpu: what cw.get_metric_data answered, None
                  \* until it is called and once check_ec2_cpu has returned
    queries,      \* history: get_metric_data calls made for this instance
    probed,       \* history: the instance get_metric_data was asked about
    sent,         \* history: the instance and path given to send_command
    checked,      \* history: the instances check_instances is through with
    storage,      \* check_instances: storage, the value check_storage returned
    command_id,   \* check_storage: command_id, None until it is assigned
    stdout,       \* check_storage: output["StandardOutputContent"] of a Success
    attempt,      \* check_storage: iterations of the polling loop started
    status,       \* check_storage: output["Status"] of the latest poll, "" if
                  \* that poll raised or none was made
    sends,        \* history: send_command calls of this check_storage call
    polls,        \* history: get_command_invocation calls of this call
    pendings,     \* history: polls of this call that reported a pending status
    slept,        \* history: seconds slept in this check_storage call
    fota_response, \* check_fota_time_api: response, None until it is assigned
    fota_e,       \* check_fota_time_api: e, the exception caught, None if none
    summary,      \* the lines print_issue_summary printed
    filtered_issues, \* print_issue_summary: filtered_issues
    handed        \* whether the report was passed to send_email

vars ==
    <<fleet, pc, exc, ran, issues, deviations, listed, envs, env_idx,
      ok_count, issue_count, call, idx, at, name, cpu, cw_response, queries,
      probed, sent, checked, storage, command_id, stdout, attempt, status,
      sends, polls, pendings, slept, fota_response, fota_e, summary,
      filtered_issues, handed>>

mainVars == <<fleet, pc, exc, ran>>
beanstalkVars == <<listed, envs, env_idx, ok_count, issue_count>>
ec2Vars == <<call, idx, at, name, cpu>>
cpuVars == <<cw_response, queries>>
probeVars == <<probed, sent, checked>>
storageVars ==
    <<storage, command_id, stdout, attempt, status, sends, polls, pendings, slept>>
fotaVars == <<fota_response, fota_e>>
reportVars == <<summary, filtered_issues, handed>>

Init ==
    /\ fleet \in Fleets
    /\ pc = 1
    /\ exc = "none"
    /\ ran = <<>>
    /\ issues = <<>>
    /\ deviations = 0
    /\ listed = FALSE
    /\ envs = <<>>
    /\ env_idx = 0
    /\ ok_count = 0
    /\ issue_count = 0
    /\ call = 1
    /\ idx = 1
    /\ at = "cpu"
    /\ name = ""
    /\ cpu = None
    /\ cw_response = None
    /\ queries = 0
    /\ probed = None
    /\ sent = None
    /\ checked = <<>>
    /\ storage = None
    /\ command_id = None
    /\ stdout = <<>>
    /\ attempt = 0
    /\ status = ""
    /\ sends = 0
    /\ polls = 0
    /\ pendings = 0
    /\ slept = 0
    /\ fota_response = None
    /\ fota_e = None
    /\ summary = <<>>
    /\ filtered_issues = <<>>
    /\ handed = FALSE

\* The main block is about to execute statement f.
Running(f) == exc = "none" /\ pc <= Len(Main) /\ Main[pc] = f

\* Statement f of the main block returns.
Return(f) == pc' = pc + 1 /\ ran' = Append(ran, f) /\ UNCHANGED <<fleet, exc>>

\* An exception leaves f; nothing in the main block catches it.
Escape(f) == exc' = f /\ UNCHANGED <<fleet, pc, ran>>

(***************************************************************************)
(* monitor_beanstalk                                                       *)
(***************************************************************************)
\* eb.describe_environments() returns the environments.
MonitorBeanstalk ==
    /\ Running("monitor_beanstalk")
    /\ ~listed
    /\ listed' = TRUE
    /\ \E listing \in EnvLists : envs' = listing
    /\ env_idx' = 0
    /\ ok_count' = 0
    /\ issue_count' = 0
    /\ UNCHANGED <<probeVars, cpuVars, fotaVars, mainVars, issues,
                   deviations, ec2Vars, storageVars, reportVars>>

\* One iteration of the loop over envs.
BeanstalkIteration ==
    /\ Running("monitor_beanstalk")
    /\ listed
    /\ env_idx < Len(envs)
    /\ LET r == BeanstalkBody(envs[env_idx + 1],
                    [ok_count |-> ok_count, issue_count |-> issue_count,
                     issues |-> issues, deviations |-> deviations])
       IN  /\ ok_count' = r.ok_count
           /\ issue_count' = r.issue_count
           /\ issues' = r.issues
           /\ deviations' = r.deviations
    /\ env_idx' = env_idx + 1
    /\ UNCHANGED <<probeVars, cpuVars, fotaVars, mainVars, listed, envs,
                   ec2Vars, storageVars, reportVars>>

\* The loop is over: the summary line is printed and the function returns;
\* its locals are gone.
BeanstalkSummary ==
    /\ Running("monitor_beanstalk")
    /\ listed
    /\ env_idx = Len(envs)
    /\ listed' = FALSE
    /\ envs' = <<>>
    /\ env_idx' = 0
    /\ ok_count' = 0
    /\ issue_count' = 0
    /\ Return("monitor_beanstalk")
    /\ UNCHANGED <<probeVars, cpuVars, fotaVars, issues, deviations, ec2Vars,
                   storageVars, reportVars>>

\* eb.describe_environments() raises: the function has no try block.
MonitorBeanstalkRaises ==
    /\ Running("monitor_beanstalk")
    /\ ~listed
    /\ Escape("monitor_beanstalk")
    /\ UNCHANGED <<probeVars, cpuVars, fotaVars, issues, deviations,
                   beanstalkVars, ec2Vars, storageVars, reportVars>>


(***************************************************************************)
(* monitor_ec2: check_instances over the two instance lists, and           *)
(* check_storage statement by statement.                                   *)
(***************************************************************************)
instances == Calls[call].instances
inst_type == Calls[call].inst_type
storage_path == Calls[call].storage_path
inst == instances[idx]

\* The issues list has room for another entry of this section.
Free == Len(issues) < MaxIssues

\* check_instances, from the top of the loop body into check_ec2_cpu:
\* cw.get_metric_data returns a response or raises.
CpuQuery ==
    /\ Running("monitor_ec2")
    /\ at = "cpu"
    /\ cw_response = None
    /\ name' = get_instance_name(fleet[inst].raised, fleet[inst].tag, inst)
    /\ probed' = Some(inst)
    /\ \E craised \in BOOLEAN, response \in CpuResponses :
          /\ craised => response = [MetricDataResults |-> <<>>]
          /\ Free \/ (~craised /\ response \in HealthyCpuResponses)
          /\ cw_response' = Some([raised |-> craised, response |-> response])
    /\ queries' = queries + 1
    /\ UNCHANGED <<sent, checked, fotaVars, mainVars, issues, deviations,
                   beanstalkVars, call, idx, at, cpu, storageVars,
                   reportVars>>

\* The rest of check_ec2_cpu, and check_instances up to the CPU branch.
CpuProbe ==
    /\ Running("monitor_ec2")
    /\ at = "cpu"
    /\ cw_response # None
    /\ LET c == check_ec2_cpu(Get(cw_response).raised, Get(cw_response).response)
       IN  /\ cpu' = c
           /\ issues' = issues \o CpuIssues(inst_type, name, c)
           /\ deviations' = deviations + Deviates(CpuVerdict(c))
    /\ cw_response' = None
    /\ at' = "send"
    /\ UNCHANGED <<probeVars, fotaVars, mainVars, beanstalkVars, call, idx,
                   name, queries, storageVars, reportVars>>

\* check_storage: ssm.send_command returns a command id.
Dispatch ==
    /\ Running("monitor_ec2")
    /\ at = "send"
    /\ sent' = Some([instance |-> inst, path |-> storage_path])
    /\ sends' = sends + 1
    /\ command_id' = Some("command-id")
    /\ at' = "delay"
    /\ UNCHANGED <<probed, checked, cpuVars, fotaVars, mainVars, issues,
                   deviations, beanstalkVars, call, idx, name, cpu, storage,
                   stdout, attempt, status, polls, pendings, slept,
                   reportVars>>

\* Mutant of DispatchRaises: the failed dispatch is tried again.
DispatchRaises_Retry ==
    /\ Running("monitor_ec2")
    /\ at = "send"
    /\ Free
    /\ sent' = Some([instance |-> inst, path |-> storage_path])
    /\ sends' = sends + 1
    /\ UNCHANGED <<probed, checked, cpuVars, fotaVars, mainVars, issues,
                   deviations, beanstalkVars, ec2Vars, storage, command_id,
                   stdout, attempt, status, polls, pendings, slept,
                   reportVars>>

\* check_storage: ssm.send_command raises; the except clause returns None.
DispatchRaises ==
    /\ Running("monitor_ec2")
    /\ at = "send"
    /\ Free
    /\ sent' = Some([instance |-> inst, path |-> storage_path])
    /\ sends' = sends + 1
    /\ storage' = None
    /\ at' = "eval"
    /\ UNCHANGED <<probed, checked, cpuVars, fotaVars, mainVars, issues,
                   deviations, beanstalkVars, call, idx, name, cpu,
                   command_id, stdout, attempt, status, polls, pendings,
                   slept, reportVars>>

\* check_storage: time.sleep(2), then the loop is entered.
InitialSleep ==
    /\ Running("monitor_ec2")
    /\ at = "delay"
    /\ slept' = slept + InitialDelay
    /\ at' = "poll"
    /\ UNCHANGED <<probeVars, cpuVars, fotaVars, mainVars, issues,
                   deviations, beanstalkVars, call, idx, name, cpu, storage,
                   command_id, stdout, attempt, status, sends, polls,
                   pendings, reportVars>>

\* The statuses a poll may report: the failure status the command has
\* ended in, if it has; otherwise any, while the issues list has room, and
\* else those of a command that succeeds within the attempts.
PollStatuses ==
    IF status \in FailureStatuses THEN {status}
    ELSE IF Free THEN Statuses
         ELSE IF attempt = MaxAttempts - 1 THEN {"Success"}
              ELSE PendingStatuses \cup {"Success"}

\* check_storage: one iteration of the loop whose poll reports a pending
\* status: sleep and continue.
PollPending ==
    /\ Running("monitor_ec2")
    /\ at = "poll"
    /\ attempt < MaxAttempts
    /\ \E s \in PollStatuses \cap PendingStatuses : status' = s
    /\ polls' = polls + 1
    /\ pendings' = pendings + 1
    /\ slept' = slept + PollInterval
    /\ attempt' = attempt + 1
    /\ UNCHANGED <<probeVars, cpuVars, fotaVars, mainVars, issues,
                   deviations, beanstalkVars, ec2Vars, storage, command_id,
                   stdout, sends, reportVars>>

\* check_storage: one iteration whose poll reports Success: return the
\* parsed tuple, or break and return None.
PollSuccess ==
    /\ Running("monitor_ec2")
    /\ at = "poll"
    /\ attempt < MaxAttempts
    /\ "Success" \in PollStatuses
    /\ status' = "Success"
    /\ polls' = polls + 1
    /\ attempt' = attempt + 1
    /\ \E content \in (IF Free THEN Stdouts ELSE HealthyStdouts) :
          /\ stdout' = content
          /\ storage' = ParseStorage(content)
    /\ at' = "eval"
    /\ UNCHANGED <<probeVars, cpuVars, fotaVars, mainVars, issues,
                   deviations, beanstalkVars, call, idx, name, cpu,
                   command_id, sends, pendings, slept, reportVars>>

\* check_storage: one iteration whose poll reports any other status:
\* neither branch is taken and the loop goes on to its next iteration.
PollOther ==
    /\ Running("monitor_ec2")
    /\ at = "poll"
    /\ attempt < MaxAttempts
    /\ \E s \in PollStatuses \ (PendingStatuses \cup {"Success"}) : status' = s
    /\ polls' = polls + 1
    /\ attempt' = attempt + 1
    /\ UNCHANGED <<probeVars, cpuVars, fotaVars, mainVars, issues,
                   deviations, beanstalkVars, ec2Vars, storage, command_id,
                   stdout, sends, pendings, slept, reportVars>>

\* Mutant of PollRaises: the failed query is taken for a pending poll and
\* the loop goes on.
PollRaises_Retry ==
    /\ Running("monitor_ec2")
    /\ at = "poll"
    /\ attempt < MaxAttempts
    /\ Free
    /\ polls' = polls + 1
    /\ attempt' = attempt + 1
    /\ status' = ""
    /\ storage' = None
    /\ at' = "poll"
    /\ UNCHANGED <<probeVars, cpuVars, fotaVars, mainVars, issues,
                   deviations, beanstalkVars, call, idx, name, cpu,
                   command_id, stdout, sends, pendings, slept, reportVars>>

\* check_storage: ssm.get_command_invocation raises; the except clause
\* returns None.
PollRaises ==
    /\ Running("monitor_ec2")
    /\ at = "poll"
    /\ attempt < MaxAttempts
    /\ Free
    /\ polls' = polls + 1
    /\ attempt' = attempt + 1
    /\ status' = ""
    /\ storage' = None
    /\ at' = "eval"
    /\ UNCHANGED <<probeVars, cpuVars, fotaVars, mainVars, issues,
                   deviations, beanstalkVars, call, idx, name, cpu,
                   command_id, stdout, sends, pendings, slept, reportVars>>

\* check_storage: range(10) is exhausted; return None.
LoopExhausted ==
    /\ Running("monitor_ec2")
    /\ at = "poll"
    /\ attempt = MaxAttempts
    /\ storage' = None
    /\ at' = "eval"
    /\ UNCHANGED <<probeVars, cpuVars, fotaVars, mainVars, issues,
                   deviations, beanstalkVars, call, idx, name, cpu,
                   command_id, stdout, attempt, status, sends, polls,
                   pendings, slept, reportVars>>

\* check_instances: the storage branch, then the next instance, the next
\* check_instances call, or the return of monitor_ec2.  The locals of the
\* iteration and of the check_storage call are dead from here on (each is
\* assigned again before it is read) and go back to their initial values.
StorageEval ==
    /\ Running("monitor_ec2")
    /\ at = "eval"
    /\ issues' = issues \o StorageIssues(inst_type, name, storage)
    /\ deviations' = deviations + Deviates(StorageVerdict(storage))
    /\ IF idx < Len(instances)
       THEN /\ idx' = idx + 1
            /\ UNCHANGED <<mainVars, call>>
       ELSE IF call < Len(Calls)
            THEN /\ call' = call + 1
                 /\ idx' = 1
                 /\ UNCHANGED mainVars
            ELSE /\ Return("monitor_ec2")
                 /\ call' = 1
                 /\ idx' = 1
    /\ at' = "cpu"
    /\ name' = ""
    /\ cpu' = None
    /\ queries' = 0
    /\ probed' = None
    /\ sent' = None
    /\ checked' = Append(checked, inst)
    /\ storage' = None
    /\ command_id' = None
    /\ stdout' = <<>>
    /\ attempt' = 0
    /\ status' = ""
    /\ sends' = 0
    /\ polls' = 0
    /\ pendings' = 0
    /\ slept' = 0
    /\ UNCHANGED <<fotaVars, cw_response, beanstalkVars, reportVars>>

(***************************************************************************)
(* check_fota_time_api                                                     *)
(***************************************************************************)
\* requests.get(...): status code and body.
StatusCodes == {200, 500}
Bodies == { <<"1","7","3","0">>, <<"1","7","3","0","\n">>, <<"o","k">>, <<>> }

\* Mutant of FotaIssues: the body is tested as received.
FotaIssues_NoStrip(status_code, text) ==
    IF status_code = 200 /\ IsDigit(text)
    THEN <<>>
    ELSE <<Issue("FOTA API", "fota.kazam.in/time", "Response", "Invalid data")>>

\* The issues appended for a response.
FotaIssues(status_code, text) ==
    IF status_code = 200 /\ IsDigit(Strip(text))
    THEN <<>>
    ELSE <<Issue("FOTA API", "fota.kazam.in/time", "Response", "Invalid data")>>

\* requests.get returns a response.
FotaRequest ==
    /\ Running("check_fota_time_api")
    /\ fota_response = None /\ fota_e = None
    /\ \E status_code \in StatusCodes, text \in Bodies :
          fota_response' = Some([status_code |-> status_code, text |-> text])
    /\ UNCHANGED <<probeVars, cpuVars, mainVars, issues, deviations,
                   beanstalkVars, ec2Vars, storageVars, fota_e, reportVars>>

\* requests.get raises.
FotaRequestRaises ==
    /\ Running("check_fota_time_api")
    /\ fota_response = None /\ fota_e = None
    /\ \E err \in ErrorTexts : fota_e' = Some(err)
    /\ UNCHANGED <<probeVars, cpuVars, mainVars, issues, deviations,
                   beanstalkVars, ec2Vars, storageVars, fota_response,
                   reportVars>>

\* The if/else on the response, and the return.
CheckFotaTimeApi ==
    /\ Running("check_fota_time_api")
    /\ fota_response # None
    /\ LET new == FotaIssues(Get(fota_response).status_code, Get(fota_response).text)
       IN  /\ issues' = issues \o new
           /\ deviations' = deviations + Deviates(IF new = <<>> THEN "OK" ELSE "Degraded")
    /\ fota_response' = None
    /\ Return("check_fota_time_api")
    /\ UNCHANGED <<probeVars, cpuVars, beanstalkVars, ec2Vars, storageVars,
                   fota_e, reportVars>>

\* The except clause reports the exception text, and the return.
CheckFotaTimeApiRaises ==
    /\ Running("check_fota_time_api")
    /\ fota_e # None
    /\ issues' = Append(issues,
                     Issue("FOTA API", "fota.kazam.in/time", "Exception", Get(fota_e)))
    /\ deviations' = deviations + Deviates("Degraded")
    /\ fota_e' = None
    /\ Return("check_fota_time_api")
    /\ UNCHANGED <<probeVars, cpuVars, beanstalkVars, ec2Vars, storageVars,
                   fota_response, reportVars>>

(***************************************************************************)
(* monitor_mqtt_nodes                                                      *)
(***************************************************************************)
\* The .cell texts of a scraped table row.
Row7 == <<"emqx@10.0.1.12", "Running", "3 days", "5.0.11", "120", "512M", "1.50">>
Row6 == <<"emqx@10.0.1.13", "Running", "3 days", "5.0.11", "120", "498M">>
Rows == {Row7, Row6}

\* presence_of_all_elements_located returns at least one row.
RowLists == SeqsUpTo(Rows, MaxRows) \ {<<>>}

\* table_data: node name, memory and CPU load of the rows of 7 or more cells.
RECURSIVE TableData(_)
TableData(rows) ==
    IF rows = <<>> THEN <<>>
    ELSE LET cols == Head(rows)
         IN  IF Len(cols) >= 7
             THEN <<<<cols[1], cols[6], cols[7]>>>> \o TableData(Tail(rows))
             ELSE TableData(Tail(rows))

\* The issue appended for every entry of table_data.
RECURSIVE NodeIssues(_)
NodeIssues(table_data) ==
    IF table_data = <<>> THEN <<>>
    ELSE LET row == Head(table_data)
         IN  <<Issue("MQTT Node", row[1], "Memory/CPU",
                     "Memory: " \o row[2] \o ", CPU: " \o row[3])>>
                 \o NodeIssues(Tail(table_data))

MonitorMqttNodes ==
    /\ Running("monitor_mqtt_nodes")
    /\ \E rows \in RowLists :
          LET table_data == TableData(rows)
          IN  /\ issues' = issues \o NodeIssues(table_data)
              /\ deviations' = deviations + Len(table_data) * Deviates("OK")
    /\ Return("monitor_mqtt_nodes")
    /\ UNCHANGED <<probeVars, cpuVars, fotaVars, beanstalkVars, ec2Vars,
                   storageVars, reportVars>>

\* The browser, the login or a wait raises; the except clause reports it.
MonitorMqttNodesRaises ==
    /\ Running("monitor_mqtt_nodes")
    /\ \E err \in ErrorTexts :
          issues' = Append(issues,
                        Issue("MQTT Node", "All", "Connection", "Failed: " \o err))
    /\ deviations' = deviations + Deviates("Missing")
    /\ Return("monitor_mqtt_nodes")
    /\ UNCHANGED <<probeVars, cpuVars, fotaVars, beanstalkVars, ec2Vars,
                   storageVars, reportVars>>

(***************************************************************************)
(* print_issue_summary                                                     *)
(***************************************************************************)
\* f"{s:<{w}}": pad on the right to width w, never truncate.
RECURSIVE LeftAlign(_, _)
LeftAlign(s, w) == IF Len(s) >= w THEN s ELSE LeftAlign(s \o " ", w)

RECURSIVE Dashes(_)
Dashes(n) == IF n = 0 THEN "" ELSE "-" \o Dashes(n - 1)

\* The two literals below stand for the printed ones without their leading
\* symbol character, which a TLA+ string cannot hold.
TitleLine == "\n--- Issues Summary ---\n"
HealthyLine == "No issues detected. All systems healthy.\n"
HeaderLine ==
    "| " \o LeftAlign("Type", 20) \o " | " \o LeftAlign("Name/Instance ID", 22)
         \o " | " \o LeftAlign("Metric", 18) \o " | "
         \o LeftAlign("Status/Value", 28) \o " |"
BorderLine ==
    "+" \o Dashes(22) \o "+" \o Dashes(24) \o "+" \o Dashes(20) \o "+"
        \o Dashes(30) \o "+"
RowLine(issue) ==
    "| " \o LeftAlign(issue.Type, 20) \o " | " \o LeftAlign(issue.Name, 22)
         \o " | " \o LeftAlign(issue.Metric, 18) \o " | "
         \o LeftAlign(issue.Status, 28) \o " |"

\* Mutant of FilteredIssues: nothing is excluded.
FilteredIssues_KeepAll(all) == SelectSeq(all, LAMBDA i : TRUE)

\* filtered_issues
FilteredIssues(all) == SelectSeq(all, LAMBDA i : i.Type # "MQTT Node")

\* Mutant of SummaryLines: the emptiness test is made on the unfiltered list.
SummaryLines_TestsAll(all) ==
    LET filtered == FilteredIssues(all)
    IN  IF all = <<>>
        THEN <<TitleLine, HealthyLine>>
        ELSE <<TitleLine, BorderLine, HeaderLine, BorderLine>>
                 \o [k \in 1..Len(filtered) |-> RowLine(filtered[k])]
                 \o <<BorderLine \o "\n">>

\* The strings print_issue_summary passes to print, in order.
SummaryLines(all) ==
    LET filtered == FilteredIssues(all)
    IN  IF filtered = <<>>
        THEN <<TitleLine, HealthyLine>>
        ELSE <<TitleLine, BorderLine, HeaderLine, BorderLine>>
                 \o [k \in 1..Len(filtered) |-> RowLine(filtered[k])]
                 \o <<BorderLine \o "\n">>

\* Mutant of PrintIssueSummary: the global list is filtered in place.
PrintIssueSummary_InPlace ==
    /\ Running("print_issue_summary")
    /\ issues' = FilteredIssues(issues)
    /\ filtered_issues' = FilteredIssues(issues)
    /\ summary' = SummaryLines(issues)
    /\ Return("print_issue_summary")
    /\ UNCHANGED <<probeVars, cpuVars, fotaVars, deviations, beanstalkVars,
                   ec2Vars, storageVars, handed>>

PrintIssueSummary ==
    /\ Running("print_issue_summary")
    /\ filtered_issues' = FilteredIssues(issues)
    /\ summary' = SummaryLines(issues)
    /\ Return("print_issue_summary")
    /\ UNCHANGED <<probeVars, cpuVars, fotaVars, issues, deviations,
                   beanstalkVars, ec2Vars, storageVars, handed>>

(***************************************************************************)
(* send_email, then print(full_report)                                     *)
(***************************************************************************)
SendEmail ==
    /\ Running("send_email")
    /\ handed' = TRUE
    /\ Return("send_email")
    /\ UNCHANGED <<probeVars, cpuVars, fotaVars, issues, deviations,
                   beanstalkVars, ec2Vars, storageVars, summary,
                   filtered_issues>>

\* The SMTP connection, login or send raises.
SendEmailRaises ==
    /\ Running("send_email")
    /\ handed' = TRUE
    /\ Escape("send_email")
    /\ UNCHANGED <<probeVars, cpuVars, fotaVars, issues, deviations,
                   beanstalkVars, ec2Vars, storageVars, summary,
                   filtered_issues>>

(***************************************************************************)
(* The run.                                                                *)
(***************************************************************************)
Next ==
    \/ MonitorBeanstalk
    \/ BeanstalkIteration
    \/ BeanstalkSummary
    \/ MonitorBeanstalkRaises
    \/ CpuQuery
    \/ CpuProbe
    \/ Dispatch
    \/ DispatchRaises
    \/ InitialSleep
    \/ PollPending
    \/ PollSuccess
    \/ PollOther
    \/ PollRaises
    \/ LoopExhausted
    \/ StorageEval
    \/ FotaRequest
    \/ FotaRequestRaises
    \/ CheckFotaTimeApi
    \/ CheckFotaTimeApiRaises
    \/ MonitorMqttNodes
    \/ MonitorMqttNodesRaises
    \/ PrintIssueSummary
    \/ SendEmail
    \/ SendEmailRaises

Spec == Init /\ [][Next]_vars

\* The interpreter always executes the next statement.
FairSpec == Spec /\ WF_vars(Next)

(***************************************************************************)
(* print_issue_summary on its own: the function is a function of the       *)
(* global issues list alone, so it is also run on lists the four monitors  *)
(* of one run have not produced, with the entries in any order.            *)
(***************************************************************************)
\* Entries as the monitors append them.
IssueSamples ==
    { Issue("Elastic Beanstalk", "web-env", "Health", "Red"),
      Issue("EC2 Logger", "i-00e0f35f25480f647", "CPU", "No data"),
      Issue("MQTT Node", "emqx@10.0.1.12", "Memory/CPU", "Memory: 512M, CPU: 1.50"),
      Issue("MQTT Node", "All", "Connection", "Failed: timed out") }

\* The main block has reached print_issue_summary() with some issues list.
InitSummary ==
    /\ fleet \in Fleets
    /\ pc = 5
    /\ exc = "none"
    /\ ran = SubSeq(Main, 1, 4)
    /\ issues \in SeqsUpTo(IssueSamples, MaxListed)
    /\ deviations = 0
    /\ listed = FALSE
    /\ envs = <<>>
    /\ env_idx = 0
    /\ ok_count = 0
    /\ issue_count = 0
    /\ call = 1
    /\ idx = 1
    /\ at = "cpu"
    /\ name = ""
    /\ cpu = None
    /\ cw_response = None
    /\ queries = 0
    /\ probed = None
    /\ sent = None
    /\ checked = logger_mongo_instances \o main_mongo_instances
    /\ storage = None
    /\ command_id = None
    /\ stdout = <<>>
    /\ attempt = 0
    /\ status = ""
    /\ sends = 0
    /\ polls = 0
    /\ pendings = 0
    /\ slept = 0
    /\ fota_response = None
    /\ fota_e = None
    /\ summary = <<>>
    /\ filtered_issues = <<>>
    /\ handed = FALSE

NextSummary ==
    \/ PrintIssueSummary
    \/ SendEmail
    \/ SendEmailRaises

SummarySpec == InitSummary /\ [][NextSummary]_vars

TypeOK ==
    /\ pc \in 1..(Len(Main) + 1)
    /\ exc \in {"none"} \cup {Main[i] : i \in 1..Len(Main)}
    /\ call \in 1..Len(Calls)
    /\ idx \in 1..Len(instances)
    /\ at \in {"cpu", "send", "delay", "poll", "eval"}
    /\ attempt \in 0..MaxAttempts
    /\ handed \in BOOLEAN

(***************************************************************************)
(* Properties.                                                             *)
(***************************************************************************)
\* check_storage has returned and check_instances has not yet used the value.
Returned == at = "eval"

\* C1: get_command_invocation is called at most 10 times per check_storage
\* call, and a call all of whose polls reported Pending or InProgress
\* returns None after exactly 10 polls.
Thm_C1 ==
    /\ polls <= 10
    /\ (Returned /\ polls > 0 /\ pendings = polls) => (storage = None /\ polls = 10)

\* A call returned after ten polls that all reported a pending status.
Wit_C1 == Returned /\ pendings = 10 /\ polls = 10 /\ storage = None

\* C2 as claimed: once a poll has reported a terminal status other than
\* Success, no further get_command_invocation call is made in that call.
CEx_C2 == [][(status \in FailureStatuses) => (polls' <= polls)]_vars

\* C3 as claimed: no exception escapes any of the four section monitors.
CEx_C3 ==
    exc \notin {"monitor_beanstalk", "monitor_ec2", "check_fota_time_api",
                "monitor_mqtt_nodes"}

\* C4 as claimed: no run stops before the summary is rendered and the
\* report is handed to send_email.
CEx_C4 == (exc # "none" \/ pc > Len(Main)) => (summary # <<>> /\ handed)

\* C5 as claimed: the issues list holds exactly one entry per check that
\* was evaluated as Degraded or Missing, and none for a check that was OK.
CEx_C5 == Len(issues) = deviations

\* C6: in check_instances a CPU probe that returned None appends the CPU
\* issue "No data", and a check_storage call that returned None appends the
\* Storage issue "Check failed".
Thm_C6 ==
    [][ /\ (at = "cpu" /\ at' = "send" /\ cpu' = None)
            => issues' = Append(issues, Issue(inst_type, name', "CPU", "No data"))
        /\ (at = "eval" /\ at' = "cpu" /\ storage = None)
            => issues' = Append(issues,
                             Issue(inst_type, name, "Storage", "Check failed"))
      ]_vars

\* The storage check of an instance failed and its issue is the last entry.
Wit_C6 ==
    /\ at = "cpu"
    /\ issues # <<>>
    /\ issues[Len(issues)].Metric = "Storage"
    /\ issues[Len(issues)].Status = "Check failed"

\* The tokens of a stdout, and whether its first token is a percentage.
Tokens(content) == Split(content)
PercentOf(content) == Remove(Tokens(content)[1], "%")

\* C7 as claimed: after a Success poll the result is a tuple exactly when
\* the stdout splits into exactly three whitespace-separated tokens.
CEx_C7 ==
    (Returned /\ status = "Success") => (storage # None <=> Len(Tokens(stdout)) = 3)

\* C7, amended: after a Success poll no further poll is made, and the result
\* is the parsed (percent, used, total) tuple exactly when the stdout splits
\* into exactly three tokens and the first, without "%", is a float literal;
\* in every other case the result is None.
Thm_C7 ==
    /\ [](Returned /\ status = "Success" =>
            IF Len(Tokens(stdout)) = 3 /\ ~FloatRaises(PercentOf(stdout))
            THEN storage = Some(<<Float(PercentOf(stdout)),
                                  Join(Tokens(stdout)[2]),
                                  Join(Tokens(stdout)[3])>>)
            ELSE storage = None)
    /\ [][(status = "Success") => (polls' <= polls)]_vars

\* A Success poll whose stdout was parsed into a tuple.
Wit_C7 ==
    /\ Returned
    /\ status = "Success"
    /\ stdout = Out85
    /\ storage = Some(<<85, "43G", "50G">>)

\* C8: send_command is invoked exactly once per check_storage call, and a
\* call whose dispatch failed returns None with no delay taken and no
\* get_command_invocation call made.
Thm_C8 ==
    /\ sends <= 1
    /\ Returned => sends = 1
    /\ (Returned /\ command_id = None) => (storage = None /\ slept = 0 /\ polls = 0)

\* A call returned without a command id.
Wit_C8 == Returned /\ command_id = None /\ sends = 1

\* C9: a successful CPU probe appends a CPU issue exactly when the value is
\* strictly greater than 65, and a successful storage probe appends a
\* Storage issue exactly when the percent is strictly greater than 84; in
\* the other case nothing is appended.
Thm_C9 ==
    [][ /\ (at = "cpu" /\ at' = "send" /\ cpu' # None) =>
              IF Get(cpu') > 65
              THEN /\ Len(issues') = Len(issues) + 1
                   /\ SubSeq(issues', 1, Len(issues)) = issues
                   /\ issues'[Len(issues')].Metric = "CPU"
              ELSE issues' = issues
        /\ (at = "eval" /\ at' = "cpu" /\ storage # None) =>
              IF Get(storage)[1] > 84
              THEN /\ Len(issues') = Len(issues) + 1
                   /\ SubSeq(issues', 1, Len(issues)) = issues
                   /\ issues'[Len(issues')].Metric = "Storage"
              ELSE issues' = issues
      ]_vars

\* A CPU reading of exactly 65 was classified OK: nothing was appended.
Wit_C9 == at = "send" /\ cpu = Some(65) /\ issues = <<>>

\* C10: the statements of a run return in the order monitor_beanstalk,
\* monitor_ec2, check_fota_time_api, monitor_mqtt_nodes, print_issue_summary,
\* send_email; a monitor is at work only when those before it have
\* returned, the summary is rendered only after the four monitors, and the
\* report is handed over only after the summary.
Order_C10 ==
    <<"monitor_beanstalk", "monitor_ec2", "check_fota_time_api",
      "monitor_mqtt_nodes", "print_issue_summary", "send_email">>

Thm_C10 ==
    /\ Len(ran) <= Len(Order_C10)
    /\ \A i \in 1..Len(ran) : ran[i] = Order_C10[i]
    /\ listed => ran = <<>>
    /\ (at # "cpu" \/ idx > 1 \/ call > 1) => ran = <<"monitor_beanstalk">>
    /\ summary # <<>> => Len(ran) >= 5
    /\ handed => (summary # <<>> /\ Len(ran) >= 5)

\* A run that went through all six statements.
Wit_C10 == handed /\ Len(ran) = 6

\* The entries of `all` whose Type is not the excluded one, by position.
Kept(all) == {i \in 1..Len(all) : all[i].Type # "MQTT Node"}

\* The position in `all` of the k-th kept entry.
KeptAt(all, k) ==
    CHOOSE i \in Kept(all) : Cardinality({j \in Kept(all) : j < i}) = k - 1

\* print_issue_summary has returned.
Printed == Len(ran) >= 5

\* C11: the filtered list of print_issue_summary holds no entry of Type
\* "MQTT Node", holds every entry of the issues list of any other Type, and
\* holds them in the order of the issues list, whatever that list holds.
Thm_C11 ==
    Printed =>
        /\ \A k \in 1..Len(filtered_issues) : filtered_issues[k].Type # "MQTT Node"
        /\ Len(filtered_issues) = Cardinality(Kept(issues))
        /\ \A k \in 1..Len(filtered_issues) :
              filtered_issues[k] = issues[KeptAt(issues, k)]

\* The summary was printed for a list with an excluded entry between two
\* different entries of other types.
Wit_C11 ==
    /\ Printed
    /\ Len(issues) = 3
    /\ issues[1].Type = "EC2 Logger"
    /\ issues[2].Type = "MQTT Node"
    /\ issues[3].Type = "Elastic Beanstalk"
    /\ Len(filtered_issues) = 2

\* How many of the printed lines are in a set of lines.
Emitted(lines) == Cardinality({k \in 1..Len(summary) : summary[k] \in lines})

\* The positions of the printed lines that are table rows: every line but
\* the title, the "all healthy" line, the header and the borders.
RowPositions ==
    {k \in 1..Len(summary) :
        summary[k] \notin {TitleLine, HealthyLine, HeaderLine, BorderLine,
                           BorderLine \o "\n"}}

\* C12: for an empty list to render print_issue_summary prints the "all
\* healthy" line once and no border, header or row; for a non-empty one it
\* prints no "all healthy" line and one row per rendered issue, in order.
Thm_C12 ==
    Printed =>
        IF filtered_issues = <<>>
        THEN /\ Emitted({HealthyLine}) = 1
             /\ Emitted({BorderLine, BorderLine \o "\n", HeaderLine}) = 0
             /\ RowPositions = {}
        ELSE /\ Emitted({HealthyLine}) = 0
             /\ Cardinality(RowPositions) = Len(filtered_issues)
             /\ \A k \in 1..Len(filtered_issues) :
                   /\ 4 + k \in RowPositions
                   /\ summary[4 + k] = RowLine(filtered_issues[k])

\* The summary was printed for a list that holds nothing but excluded
\* entries: the "all healthy" line, although the issues list is not empty.
Wit_C12 ==
    /\ Printed
    /\ issues # <<>>
    /\ filtered_issues = <<>>
    /\ summary = <<TitleLine, HealthyLine>>

\* The if/else of check_fota_time_api is executed on a response.
FotaBranch == fota_response # None /\ fota_response' = None

\* C13 as claimed: for a response of HTTP status 500 check_fota_time_api
\* appends an issue of Type "FOTA API", Metric "HTTP", Status "Error 500".
CEx_C13 ==
    [][ (FotaBranch /\ Get(fota_response).status_code = 500) =>
            /\ Len(issues') = Len(issues) + 1
            /\ issues'[Len(issues')].Type = "FOTA API"
            /\ issues'[Len(issues')].Metric = "HTTP"
            /\ issues'[Len(issues')].Status = "Error 500"
      ]_vars

\* A text of decimal digits only, and one that is so between leading and
\* trailing whitespace.
DigitsOnly(text) == text # <<>> /\ \A i \in 1..Len(text) : text[i] \in Digits

PaddedDigits(text) ==
    \E a \in 0..Len(text), b \in 0..Len(text) :
        /\ a < b
        /\ \A i \in 1..a : text[i] \in Whitespace
        /\ \A i \in (a + 1)..b : text[i] \in Digits
        /\ \A i \in (b + 1)..Len(text) : text[i] \in Whitespace

\* Exactly one issue of Type "FOTA API" is appended by the step.
OneFotaIssue ==
    /\ Len(issues') = Len(issues) + 1
    /\ SubSeq(issues', 1, Len(issues)) = issues
    /\ issues'[Len(issues')].Type = "FOTA API"

\* The except clause of check_fota_time_api is executed.
FotaExcept == fota_e # None /\ fota_e' = None

Counted ==
    {i \in 1..env_idx :
        envs[i].EnvironmentName
            \notin {"kazam-app-backend-env", "Kazam-platform-replica-env"}}

\* C15: an iteration of the loop of monitor_beanstalk over a skip-listed
\* environment changes neither counter nor the issues list; over any other
\* environment it increments the OK counter and appends nothing if the
\* health is "Green", and else increments the issue counter and appends one
\* Health issue.  Hence ok_count + issue_count is the number of non-skipped
\* environments gone through, and issue_count the number of issues this
\* monitor appended.
Thm_C15 ==
    /\ [][ (listed /\ env_idx' = env_idx + 1) =>
              LET env == envs[env_idx']
              IN  IF env.EnvironmentName
                        \in {"kazam-app-backend-env", "Kazam-platform-replica-env"}
                  THEN /\ ok_count' = ok_count
                       /\ issue_count' = issue_count
                       /\ issues' = issues
                  ELSE IF env.Health = "Green"
                       THEN /\ ok_count' = ok_count + 1
                            /\ issue_count' = issue_count
                            /\ issues' = issues
                       ELSE /\ ok_count' = ok_count
                            /\ issue_count' = issue_count + 1
                            /\ issues' = Append(issues,
                                   Issue("Elastic Beanstalk", env.EnvironmentName,
                                         "Health", env.Health))
          ]_vars
    /\ [](listed => /\ ok_count + issue_count = Cardinality(Counted)
                    /\ issue_count = Len(issues))

\* The loop has ended on a listing with a skipped environment, a healthy
\* one and an unhealthy one.
Wit_C15 ==
    /\ listed
    /\ Len(envs) = 3
    /\ env_idx = 3
    /\ Cardinality(Counted) = 2
    /\ ok_count = 1
    /\ issue_count = 1

\* What check_ec2_cpu is to return for an answer of the metrics backend.
ExpectedCpu(answer) ==
    IF answer.raised THEN None
    ELSE IF answer.response.MetricDataResults = <<>> THEN None
    ELSE LET values == answer.response.MetricDataResults[1].Values
             vs == {values[i] : i \in 1..Len(values)}
         IN  IF vs = {} THEN None
             ELSE Some(CHOOSE m \in vs : \A v \in vs : v <= m)

Thm_C17 ==
    /\ [](slept <= 2 + 10 * 3)
    /\ [](IF at = "poll" \/ (at = "eval" /\ command_id # None)
          THEN slept = 2 + 3 * pendings
          ELSE slept = 0)
    /\ [][ (slept' > slept) =>
              \/ /\ at = "delay" /\ command_id # None
                 /\ slept = 0 /\ polls = 0 /\ polls' = 0
                 /\ slept' = 2
              \/ /\ polls' = polls + 1
                 /\ status' \in {"Pending", "InProgress"}
                 /\ slept' = slept + 3 ]_vars
    /\ [][ (polls' = polls + 1) =>
              IF status' \in {"Pending", "InProgress"}
              THEN slept' = slept + 3
              ELSE slept' = slept ]_vars

\* A call returned after the longest wait: the delay and ten sleeps.
Wit_C17 == Returned /\ slept = 32 /\ pendings = 10

\* C18: every step of a run leaves the entries already in the issues list
\* in place, unchanged and in the same order, and print_issue_summary and
\* send_email leave the whole list as it is.
Thm_C18 ==
    [][ /\ Len(issues') >= Len(issues)
        /\ SubSeq(issues', 1, Len(issues)) = issues
        /\ (Running("print_issue_summary") \/ Running("send_email"))
              => issues' = issues
      ]_vars

\* A run in which three monitors have appended an entry each, the last of
\* them one that the summary leaves out, and the report was handed over.
Wit_C18 ==
    /\ handed
    /\ Len(issues) = 3
    /\ issues[1].Type = "Elastic Beanstalk"
    /\ issues[2].Type = "FOTA API"
    /\ issues[3].Type = "MQTT Node"
    /\ Len(filtered_issues) = 2

\* The logger hosts, then the main hosts, and what goes with each list.
Logger_C19 ==
    <<"i-00e0f35f25480f647", "i-0c88e356ad88357b0", "i-070ed38555e983a39">>

MainMongo_C19 ==
    <<"i-0fd0bddfa1f458b4b", "i-0b3819ce528f9cd9f", "i-051daf3ab8bc94e62">>

Order_C19 == Logger_C19 \o MainMongo_C19

RoleOf(instance_id) ==
    IF \E k \in 1..Len(Logger_C19) : Logger_C19[k] = instance_id
    THEN [type |-> "EC2 Logger", path |-> "/"]
    ELSE [type |-> "EC2 Main Mongo", path |-> "/data"]

\* The instance whose turn it is.
Current == Order_C19[Len(checked) + 1]

\* C19: monitor_ec2 goes through the logger hosts and then the main hosts,
\* each once and in list order; for each host the CPU probe is made first
\* and the storage probe is made whatever the CPU probe gave, on "/" for a
\* logger host and on "/data" for a main host; a host adds at most one CPU
\* issue, when its CPU reading is evaluated, and at most one Storage issue,
\* when its storage result is, both of the Type of its list.
Thm_C19 ==
    /\ [](/\ Len(checked) <= Len(Order_C19)
          /\ \A k \in 1..Len(checked) : checked[k] = Order_C19[k])
    /\ [](Len(ran) >= 2 => checked = Order_C19)
    /\ [](probed # None => probed = Some(Current))
    /\ [](sent # None =>
            /\ probed = Some(Current)
            /\ queries = 1
            /\ at # "cpu"
            /\ sent = Some([instance |-> Current, path |-> RoleOf(Current).path]))
    /\ [][ (checked' # checked) =>
                /\ checked' = Append(checked, Current)
                /\ probed # None
                /\ sent # None
                /\ sends = 1 ]_vars
    /\ [][ Running("monitor_ec2") =>
                /\ Len(issues') \in {Len(issues), Len(issues) + 1}
                /\ SubSeq(issues', 1, Len(issues)) = issues
                /\ (Len(issues') = Len(issues) + 1) =>
                      /\ issues'[Len(issues')].Type = RoleOf(Current).type
                      /\ \/ /\ at = "cpu" /\ at' = "send"
                            /\ issues'[Len(issues')].Metric = "CPU"
                         \/ /\ at = "eval" /\ checked' # checked
                            /\ issues'[Len(issues')].Metric = "Storage"
          ]_vars

\* The storage probe of the second main host has returned, on "/data",
\* after a CPU probe of that host that gave no reading.
Wit_C19 ==
    /\ Len(checked) = 4
    /\ at = "eval"
    /\ cpu = None
    /\ sent = Some([instance |-> "i-0b3819ce528f9cd9f", path |-> "/data"])

\* The latest get_command_invocation call of this check_storage call raised.
PollFailed == polls > 0 /\ status = ""

\* C20: when a get_command_invocation call raises, check_storage returns
\* None at that attempt: the step that takes the failure ends the call,
\* without sleeping or dispatching again, no further poll follows it, and
\* no exception leaves the call.
Thm_C20 ==
    /\ [][ (polls' = polls + 1 /\ status' = "") =>
                /\ at' = "eval"
                /\ storage' = None
                /\ slept' = slept
                /\ sends' = sends ]_vars
    /\ [](PollFailed => (Returned /\ storage = None))
    /\ [][ PollFailed => (polls' <= polls /\ sends' <= sends) ]_vars
    /\ [](PollFailed => exc = "none")

\* A call returned at its third poll, which raised after two pending ones.
Wit_C20 ==
    /\ Returned
    /\ PollFailed
    /\ polls = 3
    /\ pendings = 2
    /\ storage = None

====
